---- MODULE Spec2Model ----
(***************************************************************************)
(* node-bunyan command line filter: bin/bunyan (line reassembly, record    *)
(* classification, rendering, stream driver) and lib/common.js             *)
(* (formatRecord).                                                         *)
(*                                                                         *)
(* Text is a TLA+ string; a character is a string of length 1.  JSON       *)
(* values are records of one shape (t = type tag, s = string payload,      *)
(* n = number payload, o = the ordered members of an object).  The value   *)
(* universe has no arrays, no negative numbers and no fractions.           *)
(***************************************************************************)
EXTENDS Integers, Sequences, FiniteSets, TLC

(***************************************************************************)
(* Text helpers                                                            *)
(***************************************************************************)
NL == "\n"
CR == "\r"
\* The ESC control character (\033) of the ANSI sequences.
ESC == "\f"

\* The characters of s at the positions a..b that s has.
Sub(s, a, b) ==
    IF a > b \/ a > Len(s) \/ b < 1 THEN ""
    ELSE SubSeq(s, IF a < 1 THEN 1 ELSE a, IF b > Len(s) THEN Len(s) ELSE b)

\* The character of s at position i, "" outside of s.
Ch(s, i) == Sub(s, i, i)

Contains(s, c) == \E i \in 1..Len(s) : Ch(s, i) = c

RECURSIVE Join(_, _)
Join(parts, sep) ==
    IF Len(parts) = 0 THEN ""
    ELSE IF Len(parts) = 1 THEN parts[1]
    ELSE parts[1] \o sep \o Join(Tail(parts), sep)

\* f[lo] \o ... \o f[hi], by halving.
RECURSIVE Cat(_, _, _)
Cat(f, lo, hi) ==
    IF lo > hi THEN ""
    ELSE IF lo = hi THEN f[lo]
    ELSE Cat(f, lo, (lo + hi) \div 2) \o Cat(f, ((lo + hi) \div 2) + 1, hi)

Rep(c, n) == Cat([i \in 1..n |-> c], 1, n)

Digits == "0123456789"

IsDigit(c) == \E d \in 1..10 : Ch(Digits, d) = c

DigitVal(c) == (CHOOSE d \in 1..10 : Ch(Digits, d) = c) - 1

\* String(n) for a non-negative integer.
RECURSIVE NumText(_)
NumText(n) ==
    IF n < 10 THEN Ch(Digits, n + 1)
    ELSE NumText(n \div 10) \o Ch(Digits, (n % 10) + 1)

\* The least element of a non-empty set of numbers.
MinOf(S) == CHOOSE x \in S : \A y \in S : x <= y

\* The greatest element of a non-empty set of numbers.
MaxOf(S) == CHOOSE x \in S : \A y \in S : y <= x

\* The pieces of s from position i on: a piece ends at the next "\n" (at
\* position j), and a "\r" right before that "\n" belongs to the terminator.
RECURSIVE SplitFrom(_, _, _)
SplitAt(s, i, acc, j) ==
    SplitFrom(s, j + 1,
              Append(acc, Sub(s, i, IF j - 1 >= i /\ Ch(s, j - 1) = CR
                                       THEN j - 2 ELSE j - 1)))

SplitNext(s, i, acc, nls) ==
    IF nls = {} THEN Append(acc, Sub(s, i, Len(s)))
    ELSE SplitAt(s, i, acc, MinOf(nls))

SplitFrom(s, i, acc) == SplitNext(s, i, acc, {j \in i..Len(s) : Ch(s, j) = NL})

\* chunk.split(/\r\n|\n/): the pieces between terminators; "\r\n" is tried
\* first at every position, a lone "\r" is an ordinary character.
SplitLines(s) == SplitFrom(s, 1, <<>>)

\* indent(s): four spaces before every line of s.
indent(s) == "    " \o Join(SplitLines(s), NL \o "    ")

\* String.prototype.trimRight, over the whitespace of the model's alphabet.
RECURSIVE trimRight(_)
trimRight(s) ==
    IF Len(s) > 0 /\ Ch(s, Len(s)) \in {" ", NL, CR}
    THEN trimRight(Sub(s, 1, Len(s) - 1))
    ELSE s

(***************************************************************************)
(* JavaScript values                                                       *)
(***************************************************************************)
Mk(t, s, n, o) == [t |-> t, s |-> s, n |-> n, o |-> o]
Undef == Mk("undef", "", 0, <<>>)
Null == Mk("null", "", 0, <<>>)
Bool(b) == Mk("bool", "", IF b THEN 1 ELSE 0, <<>>)
Num(n) == Mk("num", "", n, <<>>)
\* The number Infinity: what a number literal beyond the range of a double
\* evaluates to.
Infinity == Mk("num", "Infinity", 0, <<>>)
IsFinite(v) == v.s = ""
Str(s) == Mk("str", s, 0, <<>>)
Obj(o) == Mk("obj", "", 0, o)
KV(k, v) == [k |-> k, v |-> v]

\* ToBoolean
Truthy(v) ==
    CASE v.t = "undef" -> FALSE
      [] v.t = "null" -> FALSE
      [] v.t = "bool" -> v.n = 1
      [] v.t = "num" -> v.n # 0 \/ ~IsFinite(v)
      [] v.t = "str" -> v.s # ""
      [] OTHER -> TRUE

\* v == null (null or undefined)
IsNullish(v) == v.t \in {"undef", "null"}

\* ToString, as string concatenation and %s apply it.
ToStr(v) ==
    CASE v.t = "undef" -> "undefined"
      [] v.t = "null" -> "null"
      [] v.t = "bool" -> (IF v.n = 1 THEN "true" ELSE "false")
      [] v.t = "num" -> (IF IsFinite(v) THEN NumText(v.n) ELSE "Infinity")
      [] v.t = "str" -> v.s
      [] OTHER -> "[object Object]"

\* The number a string of digits denotes.
RECURSIVE TextNum(_)
TextNum(s) ==
    IF Len(s) = 0 THEN 0
    ELSE 10 * TextNum(Sub(s, 1, Len(s) - 1)) + DigitVal(Ch(s, Len(s)))

\* Number(v) printed, as %d applies it.
ToNumStr(v) ==
    CASE v.t = "num" -> (IF IsFinite(v) THEN NumText(v.n) ELSE "Infinity")
      [] v.t = "null" -> "0"
      [] v.t = "bool" -> NumText(v.n)
      [] v.t = "str" /\ (\A i \in 1..Len(v.s) : IsDigit(Ch(v.s, i))) ->
            NumText(TextNum(v.s))
      [] OTHER -> "NaN"

HasKey(o, k) == \E i \in 1..Len(o) : o[i].k = k

\* o[k]
Get(o, k) ==
    IF HasKey(o, k) THEN o[CHOOSE i \in 1..Len(o) : o[i].k = k].v ELSE Undef

\* delete o[k]
Del(o, k) == SelectSeq(o, LAMBDA m : m.k # k)

\* o[k] = v: an existing key keeps its place, a new key goes last.
Set(o, k, v) ==
    IF HasKey(o, k)
    THEN [i \in 1..Len(o) |-> IF o[i].k = k THEN KV(k, v) ELSE o[i]]
    ELSE Append(o, KV(k, v))

\* x.k for a value x that is not null or undefined.
Prop(x, k) == IF x.t = "obj" THEN Get(x.o, k) ELSE Undef

(***************************************************************************)
(* JSON.parse and JSON.stringify of the runtime, over the value universe   *)
(***************************************************************************)
ParseFail == [ok |-> FALSE, v |-> Undef, i |-> 0]
ParseOk(v, i) == [ok |-> TRUE, v |-> v, i |-> i]

RECURSIVE SkipWs(_, _)
SkipWs(s, i) ==
    IF i <= Len(s) /\ Ch(s, i) \in {" ", NL, CR} THEN SkipWs(s, i + 1) ELSE i

\* The number of backslashes in a row that end right before position j,
\* none of them before position i.
BsRun(i, j, stops) == IF stops = {} THEN j - i ELSE j - 1 - MaxOf(stops)

BsBefore(s, i, j) == BsRun(i, j, {x \in i..(j - 1) : Ch(s, x) # "\\"})

\* Position p of raw starts an escape sequence.
EscStart(raw, p) ==
    p >= 1 /\ p <= Len(raw) /\ Ch(raw, p) = "\\" /\ BsBefore(raw, 1, p) % 2 = 0

\* Position p of raw is inside an escape sequence, after its backslash.
EscInside(raw, p) ==
    \/ EscStart(raw, p - 1)
    \/ \E q \in 2..5 : EscStart(raw, p - q) /\ Ch(raw, p - q + 1) = "u"

EscValid(raw, p) ==
    \/ Ch(raw, p + 1) \in {"n", "r", "\"", "\\", "/"}
    \/ Sub(raw, p + 1, p + 5) = "u001b"

EscDecode(e) ==
    CASE e = "n" -> NL
      [] e = "r" -> CR
      [] e = "u" -> ESC
      [] OTHER -> e

\* The text between the quotes, escapes decoded; raw control characters
\* and unknown escapes are syntax errors.
ParseRaw(raw, next) ==
    IF \E p \in 1..Len(raw) :
          \/ Ch(raw, p) \in {NL, CR, ESC}
          \/ EscStart(raw, p) /\ ~EscValid(raw, p)
    THEN ParseFail
    ELSE ParseOk(Str(Cat([p \in 1..Len(raw) |->
                            IF EscStart(raw, p) THEN EscDecode(Ch(raw, p + 1))
                            ELSE IF EscInside(raw, p) THEN ""
                            ELSE Ch(raw, p)], 1, Len(raw))),
                 next)

ParseStringEnd(s, i, ends) ==
    IF ends = {} THEN ParseFail
    ELSE ParseRaw(Sub(s, i, MinOf(ends) - 1), MinOf(ends) + 1)

\* The string literal whose opening quote is at position i - 1: it ends at
\* the first quote that is not escaped.
ParseString(s, i) ==
    ParseStringEnd(s, i, {j \in i..Len(s) :
                            /\ Ch(s, j) = "\""
                            /\ \/ j = i
                               \/ Ch(s, j - 1) # "\\"
                               \/ BsBefore(s, i, j) % 2 = 0})

RECURSIVE DigitsEnd(_, _)
DigitsEnd(s, i) ==
    IF i <= Len(s) /\ IsDigit(Ch(s, i)) THEN DigitsEnd(s, i + 1) ELSE i

\* The greatest decimal exponent of a double: Number.MAX_VALUE is
\* 1.7976931348623157e308.
MaxExp10 == 308

RECURSIVE Pow10(_)
Pow10(x) == IF x = 0 THEN 1 ELSE 10 * Pow10(x - 1)

\* The value of a literal of mantissa m (d digits) and decimal exponent x:
\* Infinity when it is beyond every double.
Scaled(m, d, x) ==
    IF m = 0 THEN Num(0)
    ELSE IF d - 1 + x > MaxExp10 THEN Infinity
    ELSE Num(m * Pow10(x))

\* The exponent part "e" digits, the digits ending before position e.
ParseExponent(s, i, j, e) ==
    IF e = j + 1 THEN ParseFail
    ELSE ParseOk(Scaled(TextNum(Sub(s, i, j - 1)), j - i,
                        TextNum(Sub(s, j + 1, e - 1))), e)

ParseNumberTo(s, i, j) ==
    IF j = i \/ (Ch(s, i) = "0" /\ j > i + 1) THEN ParseFail
    ELSE IF Ch(s, j) \in {"e", "E"} THEN ParseExponent(s, i, j, DigitsEnd(s, j + 1))
    ELSE ParseOk(Num(TextNum(Sub(s, i, j - 1))), j)

ParseNumber(s, i) == ParseNumberTo(s, i, DigitsEnd(s, i))

RECURSIVE ParseValue(_, _)
RECURSIVE ParseMembers(_, _, _)
\* After a member: "," and the next member, or "}".
ParseAfterMember(s, acc, e) ==
    IF e > Len(s) THEN ParseFail
    ELSE IF Ch(s, e) = "," THEN ParseMembers(s, e + 1, acc)
    ELSE IF Ch(s, e) = "}" THEN ParseOk(Obj(acc), e + 1)
    ELSE ParseFail

\* A later member of the same name replaces the value of the earlier one.
ParseMemberValue(s, acc, k, v) ==
    IF ~v.ok THEN ParseFail
    ELSE ParseAfterMember(s, Set(acc, k.v.s, v.v), SkipWs(s, v.i))

ParseMemberColon(s, acc, k, c) ==
    IF c > Len(s) \/ Ch(s, c) # ":" THEN ParseFail
    ELSE ParseMemberValue(s, acc, k, ParseValue(s, SkipWs(s, c + 1)))

ParseMemberKey(s, acc, k) ==
    IF ~k.ok THEN ParseFail ELSE ParseMemberColon(s, acc, k, SkipWs(s, k.i))

ParseMemberAt(s, acc, i) ==
    IF i > Len(s) \/ Ch(s, i) # "\"" THEN ParseFail
    ELSE ParseMemberKey(s, acc, ParseString(s, i + 1))

\* The members of an object from position i on, up to its "}".
ParseMembers(s, i, acc) == ParseMemberAt(s, acc, SkipWs(s, i))

ParseObjectAt(s, i, j) ==
    IF j <= Len(s) /\ Ch(s, j) = "}" THEN ParseOk(Obj(<<>>), j + 1)
    ELSE ParseMembers(s, i + 1, <<>>)

ParseValueAt(s, i, c) ==
    CASE c = "{" -> ParseObjectAt(s, i, SkipWs(s, i + 1))
      [] c = "\"" -> ParseString(s, i + 1)
      [] IsDigit(c) -> ParseNumber(s, i)
      [] Sub(s, i, i + 3) = "true" -> ParseOk(Bool(TRUE), i + 4)
      [] Sub(s, i, i + 4) = "false" -> ParseOk(Bool(FALSE), i + 5)
      [] Sub(s, i, i + 3) = "null" -> ParseOk(Null, i + 4)
      [] OTHER -> ParseFail

ParseValue(s, i) == IF i > Len(s) THEN ParseFail ELSE ParseValueAt(s, i, Ch(s, i))

ParseWhole(s, r) ==
    IF r.ok /\ SkipWs(s, r.i) = Len(s) + 1 THEN r ELSE ParseFail

\* JSON.parse(s): ok = FALSE stands for the SyntaxError it throws.
JSONparse(s) == ParseWhole(s, ParseValue(s, SkipWs(s, 1)))

\* A string as a JSON string literal.
QuoteChar(c) ==
    CASE c = "\"" -> "\\\""
      [] c = "\\" -> "\\\\"
      [] c = NL -> "\\n"
      [] c = CR -> "\\r"
      [] c = ESC -> "\\u001b"
      [] OTHER -> c

QuoteChars(s) == Cat([i \in 1..Len(s) |-> QuoteChar(Ch(s, i))], 1, Len(s))

Quote(s) == "\"" \o QuoteChars(s) \o "\""

\* JSON.stringify(v, null, indent) with gap = the indent as spaces and ind
\* the indentation of the enclosing level.  Members whose value is
\* undefined are left out.
RECURSIVE Stringify(_, _, _)
RECURSIVE StringifyMembers(_, _, _)
StringifyMembers(o, gap, ind) ==
    IF Len(o) = 0 THEN <<>>
    ELSE <<Quote(o[1].k) \o (IF gap = "" THEN ":" ELSE ": ")
             \o Stringify(o[1].v, gap, ind)>>
         \o StringifyMembers(Tail(o), gap, ind)

StringifyObject(o, parts, gap, ind) ==
    IF Len(o) = 0 THEN "{}"
    ELSE IF gap = "" THEN "{" \o Join(parts, ",") \o "}"
    ELSE "{" \o NL \o ind \o gap \o Join(parts, "," \o NL \o ind \o gap)
             \o NL \o ind \o "}"

StringifyKept(o, gap, ind) ==
    StringifyObject(o, StringifyMembers(o, gap, ind \o gap), gap, ind)

Stringify(v, gap, ind) ==
    CASE v.t = "null" -> "null"
      [] v.t = "bool" -> (IF v.n = 1 THEN "true" ELSE "false")
      [] v.t = "num" -> (IF IsFinite(v) THEN NumText(v.n) ELSE "null")
      [] v.t = "str" -> Quote(v.s)
      [] v.t = "obj" ->
            StringifyKept(SelectSeq(v.o, LAMBDA m : m.v.t # "undef"), gap, ind)
      [] OTHER -> "undefined"

JSONstringify(v, n) == Stringify(v, Rep(" ", IF n > 10 THEN 10 ELSE n), "")

(***************************************************************************)
(* bin/bunyan: constants and support functions                             *)
(***************************************************************************)
OM_PAUL == 1
OM_JSON == 2
OM_INSPECT == 3
OM_SIMPLE == 4
\* The modes lib/common.js switches on; bin/bunyan of src/ does not define
\* them.  OM_LONG is the later name of OM_PAUL.
OM_LONG == OM_PAUL
OM_SHORT == 5
OM_BUNYAN == 6

\* parseArgv: OM_FROM_NAME values, "-o json-N" indents, --color/--no-color.
BinModes == {OM_PAUL, OM_JSON, OM_INSPECT, OM_SIMPLE}
LibModes == {OM_LONG, OM_SHORT, OM_JSON, OM_INSPECT, OM_SIMPLE, OM_BUNYAN}

\* upperNameFromLevel[k], "" standing for undefined.
upperNameFromLevel(k) ==
    CASE k = "10" -> "TRACE"
      [] k = "20" -> "DEBUG"
      [] k = "30" -> "INFO"
      [] k = "40" -> "WARN"
      [] k = "50" -> "ERROR"
      [] k = "60" -> "FATAL"
      [] OTHER -> ""

\* upperPaddedNameFromLevel[k]: four-letter names get a leading space.
upperPaddedNameFromLevel(k) ==
    LET name == upperNameFromLevel(k) IN
    IF Len(name) = 4 THEN " " \o name ELSE name

\* colors[color] as <<on, off>>, <<>> standing for undefined.
colors(color) ==
    CASE color = "bold" -> <<1, 22>>
      [] color = "italic" -> <<3, 23>>
      [] color = "underline" -> <<4, 24>>
      [] color = "inverse" -> <<7, 27>>
      [] color = "white" -> <<37, 39>>
      [] color = "grey" -> <<90, 39>>
      [] color = "black" -> <<30, 39>>
      [] color = "blue" -> <<34, 39>>
      [] color = "cyan" -> <<36, 39>>
      [] color = "green" -> <<32, 39>>
      [] color = "magenta" -> <<35, 39>>
      [] color = "red" -> <<31, 39>>
      [] color = "yellow" -> <<33, 39>>
      [] OTHER -> <<>>

stylizeWithColor(str, color) ==
    IF str = "" THEN ""
    ELSE LET codes == colors(color) IN
         IF codes # <<>>
         THEN ESC \o "[" \o NumText(codes[1]) \o "m" \o str
                  \o ESC \o "[" \o NumText(codes[2]) \o "m"
         ELSE str

stylizeWithoutColor(str, color) == str

\* main: stylize = (opts.color ? stylizeWithColor : stylizeWithoutColor)
Stylize(opts, str, color) ==
    IF opts.color THEN stylizeWithColor(str, color)
    ELSE stylizeWithoutColor(str, color)

\* colorFromLevel[k], "" standing for undefined.
colorFromLevel(k) ==
    CASE k \in {"10", "20"} -> "grey"
      [] k = "30" -> "cyan"
      [] k = "40" -> "magenta"
      [] k = "50" -> "red"
      [] k = "60" -> "inverse"
      [] OTHER -> ""

\* http.STATUS_CODES[k] as format's %s prints it.
STATUS_CODES(k) ==
    CASE k = "200" -> "OK"
      [] k = "404" -> "Not Found"
      [] k = "500" -> "Internal Server Error"
      [] OTHER -> "undefined"

\* isValidRecord with truthiness tests (!rec.v, ...) in place of == null:
\* the variant the required-field property must tell from the code.
isValidRecordTruthy(rec) ==
    \A k \in {"v", "level", "name", "hostname", "pid", "time", "msg"} :
        Truthy(Get(rec, k))

\* rec.v == null || rec.level == null || ...: absent (undefined) or null.
isValidRecord(rec) ==
    ~ \/ IsNullish(Get(rec, "v"))
      \/ IsNullish(Get(rec, "level"))
      \/ IsNullish(Get(rec, "name"))
      \/ IsNullish(Get(rec, "hostname"))
      \/ IsNullish(Get(rec, "pid"))
      \/ IsNullish(Get(rec, "time"))
      \/ IsNullish(Get(rec, "msg"))

\* Object.keys(headers).map(h => h + ': ' + headers[h]).join('\n')
HeaderLines(headers) ==
    Join([i \in 1..Len(headers) |->
            headers[i].k \o ": " \o ToStr(headers[i].v)], NL)

\* The longest value the leftover loop keeps inline.
InlineMax == 50

(***************************************************************************)
(* The rendering of one record is a chain of steps over a state st:        *)
(* rec = the members still on the record, extras and details = the two     *)
(* arrays, oneline = onelineMsg, threw = a TypeError was raised (every     *)
(* later step is then skipped).                                            *)
(***************************************************************************)
Throw(st) == [st EXCEPT !.threw = TRUE]

DelAll(o, ks) == SelectSeq(o, LAMBDA m : m.k \notin ks)

\* The leftover placement with the threshold taken as value.length >= 50:
\* the variant the threshold property must tell from the code.
LeftoverPlaceFrom(st, key, value, stringified) ==
    IF Contains(value, NL) \/ Len(value) >= InlineMax
    THEN [st EXCEPT !.details = Append(@, indent(key \o ": " \o value))]
    ELSE IF ~stringified /\ (Contains(value, " ") \/ Len(value) = 0)
    THEN [st EXCEPT !.extras = Append(@, key \o "=" \o Quote(value))]
    ELSE [st EXCEPT !.extras = Append(@, key \o "=" \o value)]

\* The leftover loop, shared by bin/bunyan and lib/common.js: where one
\* key goes, value being its string form.
LeftoverPlace(st, key, value, stringified) ==
    IF Contains(value, NL) \/ Len(value) > InlineMax
    THEN [st EXCEPT !.details = Append(@, indent(key \o ": " \o value))]
    ELSE IF ~stringified /\ (Contains(value, " ") \/ Len(value) = 0)
    THEN [st EXCEPT !.extras = Append(@, key \o "=" \o Quote(value))]
    ELSE [st EXCEPT !.extras = Append(@, key \o "=" \o value)]

LeftoverOne(st, m) ==
    IF m.v.t # "str" THEN LeftoverPlace(st, m.k, JSONstringify(m.v, 2), TRUE)
    ELSE LeftoverPlace(st, m.k, m.v.s, FALSE)

RECURSIVE LeftoverLoop(_, _)
LeftoverLoop(st, ms) ==
    IF Len(ms) = 0 THEN st
    ELSE LeftoverLoop(LeftoverOne(st, Head(ms)), Tail(ms))

StepLeftover(st) == IF st.threw THEN st ELSE LeftoverLoop(st, st.rec)

StepReqId(st) ==
    LET v == Get(st.rec, "req_id")
        st1 == IF Truthy(v)
               THEN [st EXCEPT !.extras = Append(@, "req_id=" \o ToStr(v))]
               ELSE st
    IN [st1 EXCEPT !.rec = Del(@, "req_id")]

StepLatency(st) ==
    LET v == Get(st.rec, "latency")
        st1 == IF Truthy(v)
               THEN [st EXCEPT !.extras = Append(@, ToStr(v) \o "ms")]
               ELSE st
    IN [st1 EXCEPT !.rec = Del(@, "latency")]

\* rec.msg.indexOf is a TypeError unless msg is a string.
StepMsg(st, opts) ==
    LET msg == Get(st.rec, "msg") IN
    IF st.threw THEN st
    ELSE IF msg.t # "str" THEN Throw(st)
    ELSE IF Contains(msg.s, NL)
    THEN [st EXCEPT !.oneline = "",
                    !.details = Append(@, indent(Stylize(opts, msg.s, "cyan"))),
                    !.rec = Del(@, "msg")]
    ELSE [st EXCEPT !.oneline = " " \o Stylize(opts, msg.s, "cyan"),
                    !.rec = Del(@, "msg")]

\* rec.err && rec.err.stack: indent() splits the stack, a TypeError unless
\* it is a string.
StepErr(st) ==
    LET err == Get(st.rec, "err")
        stack == IF IsNullish(err) THEN Undef ELSE Prop(err, "stack")
    IN IF st.threw THEN st
       ELSE IF Truthy(err) /\ Truthy(stack)
       THEN IF stack.t # "str" THEN Throw(st)
            ELSE [st EXCEPT !.details = Append(@, indent(stack.s)),
                            !.rec = Del(@, "err")]
       ELSE st

\* src = rec.src && rec.src.file ? stylize(format(...), 'green') : ''
SrcText(rec, opts) ==
    LET s == Get(rec, "src") IN
    IF Truthy(s) /\ Truthy(Prop(s, "file"))
    THEN Stylize(opts,
            IF Truthy(Prop(s, "func"))
            THEN " (" \o ToStr(Prop(s, "file")) \o ":" \o ToNumStr(Prop(s, "line"))
                      \o " in " \o ToStr(Prop(s, "func")) \o ")"
            ELSE " (" \o ToStr(Prop(s, "file")) \o ":" \o ToNumStr(Prop(s, "line"))
                      \o ")",
            "green")
    ELSE ""

\* upperPaddedNameFromLevel[rec.level] || 'LVL' + rec.level, colored by level
\* when opts.color.
LevelText(rec, opts) ==
    LET k == ToStr(Get(rec, "level"))
        level == IF upperPaddedNameFromLevel(k) # ""
                 THEN upperPaddedNameFromLevel(k) ELSE "LVL" \o k
    IN IF opts.color THEN Stylize(opts, level, colorFromLevel(k)) ELSE level

\* extras = stylize(extras.length ? ' (' + extras.join(', ') + ')' : '', 'grey')
ExtrasText(st, opts) ==
    Stylize(opts,
            IF Len(st.extras) > 0 THEN " (" \o Join(st.extras, ", ") \o ")" ELSE "",
            "grey")

\* details = stylize(details.length ? details.join('\n    --\n') + '\n' : '', 'grey')
DetailsText(st, opts) ==
    Stylize(opts,
            IF Len(st.details) > 0
            THEN Join(st.details, NL \o "    --" \o NL) \o NL ELSE "",
            "grey")

(***************************************************************************)
(* bin/bunyan: handleLogLine                                               *)
(***************************************************************************)
\* if (rec.req): Object.keys(headers) is a TypeError unless headers is an
\* object.
BinStepReq(st) ==
    LET req == Get(st.rec, "req")
        headers == Prop(req, "headers")
    IN IF st.threw THEN st
       ELSE IF ~Truthy(req) THEN [st EXCEPT !.rec = Del(@, "req")]
       ELSE IF headers.t # "obj" THEN Throw(st)
       ELSE [st EXCEPT
               !.details = Append(@, indent(
                   ToStr(Prop(req, "method")) \o " " \o ToStr(Prop(req, "url"))
                   \o " HTTP/1.1" \o NL \o HeaderLines(headers.o))),
               !.rec = Del(@, "req")]

BinStepClientReq(st) ==
    LET creq == Get(st.rec, "client_req")
        headers == Prop(creq, "headers")
        hostHeaderLine ==
            IF Truthy(Prop(creq, "address"))
            THEN "Host: " \o ToStr(Prop(creq, "address"))
                 \o (IF Truthy(Prop(creq, "port"))
                     THEN ":" \o ToStr(Prop(creq, "port")) ELSE "")
                 \o NL
            ELSE ""
    IN IF st.threw THEN st
       ELSE IF ~Truthy(creq) THEN [st EXCEPT !.rec = Del(@, "client_req")]
       ELSE IF headers.t # "obj" THEN Throw(st)
       ELSE [st EXCEPT
               !.details = Append(@, indent(
                   ToStr(Prop(creq, "method")) \o " " \o ToStr(Prop(creq, "url"))
                   \o " HTTP/1.1" \o NL \o hostHeaderLine
                   \o HeaderLines(headers.o))),
               !.rec = Del(@, "client_req")]

\* if (rec.res): header.trimRight is a TypeError unless header is a string.
BinStepRes(st) ==
    LET res == Get(st.rec, "res")
        header == Prop(res, "header")
        headers == Prop(res, "headers")
        code == Prop(res, "statusCode")
        statusLine ==
            IF Truthy(code)
            THEN "HTTP/1.1 " \o ToStr(code) \o " " \o STATUS_CODES(ToStr(code)) \o NL
            ELSE ""
        s == IF Truthy(header) THEN trimRight(header.s)
             ELSE IF Truthy(headers) THEN statusLine \o HeaderLines(headers.o)
             ELSE ""
    IN IF st.threw THEN st
       ELSE IF ~Truthy(res) THEN [st EXCEPT !.rec = Del(@, "res")]
       ELSE IF Truthy(header) /\ header.t # "str" THEN Throw(st)
       ELSE IF ~Truthy(header) /\ Truthy(headers) /\ headers.t # "obj" THEN Throw(st)
       ELSE [st EXCEPT
               !.details = IF s # "" THEN Append(@, indent(s)) ELSE @,
               !.rec = Del(@, "res")]

\* case OM_PAUL, after the isValidRecord test: the state before the emit.
PaulSteps(rec, opts) ==
    LET st0 == [rec |-> DelAll(rec, {"v", "time", "name", "component", "pid",
                                     "level", "src", "hostname"}),
                extras |-> <<>>, details |-> <<>>, oneline |-> "",
                threw |-> FALSE]
    IN StepLeftover(StepErr(BinStepRes(BinStepClientReq(BinStepReq(
         StepMsg(StepLatency(StepReqId(st0)), opts))))))

\* format("%s %s: %s on %s%s:%s%s\n%s", time, level, nameStr,
\*        hostname || "<no-hostname>", src, onelineMsg, extras, details)
PaulText(rec, opts, st) ==
    LET time == Stylize(opts, "[" \o ToStr(Get(rec, "time")) \o "]", "XXX")
        nameStr == ToStr(Get(rec, "name"))
                   \o (IF Truthy(Get(rec, "component"))
                       THEN "/" \o ToStr(Get(rec, "component")) ELSE "")
                   \o "/" \o ToStr(Get(rec, "pid"))
        hostname == IF Truthy(Get(rec, "hostname"))
                    THEN ToStr(Get(rec, "hostname")) ELSE "<no-hostname>"
    IN time \o " " \o LevelText(rec, opts) \o ": " \o nameStr \o " on "
            \o hostname \o SrcText(rec, opts) \o ":" \o st.oneline
            \o ExtrasText(st, opts) \o NL \o DetailsText(st, opts)

\* util.inspect(rec, false, Infinity, true) of the runtime: every primitive
\* is wrapped in its color codes, members are listed on one line.
RECURSIVE inspect(_)
RECURSIVE inspectMembers(_)
inspectMembers(o) ==
    IF Len(o) = 0 THEN <<>>
    ELSE <<o[1].k \o ": " \o inspect(o[1].v)>> \o inspectMembers(Tail(o))

inspect(v) ==
    CASE v.t = "null" -> stylizeWithColor("null", "bold")
      [] v.t = "undef" -> stylizeWithColor("undefined", "grey")
      [] v.t = "bool" -> stylizeWithColor(ToStr(v), "yellow")
      [] v.t = "num" -> stylizeWithColor(ToStr(v), "yellow")
      [] v.t = "str" -> stylizeWithColor("'" \o QuoteChars(v.s) \o "'", "green")
      [] OTHER -> IF Len(v.o) = 0 THEN "{}"
                  ELSE "{ " \o Join(inspectMembers(v.o), ", ") \o " }"

\* What one call left behind: emitted = the strings given to emit(), threw =
\* it ended by an exception, path = the branch that returned.
Outcome(path, emitted, threw, st) ==
    [path |-> path, emitted |-> emitted, threw |-> threw,
     extras |-> st.extras, details |-> st.details, left |-> st.rec]

NoSt == [rec |-> <<>>, extras |-> <<>>, details |-> <<>>, oneline |-> "",
         threw |-> FALSE]

Passthrough(line) == Outcome("passthrough", <<line \o NL>>, FALSE, NoSt)

\* case OM_PAUL, from the state st the steps left.
PaulOutcome(rec, opts, st) ==
    IF st.threw THEN Outcome("paul", <<>>, TRUE, st)
    ELSE Outcome("paul", <<PaulText(rec, opts, st)>>, FALSE, st)

\* format("%s - %s\n", upperNameFromLevel[rec.level] || "LVL" + rec.level,
\*        rec.msg), k being the level as a property name.
SimpleText(rec, k) ==
    (IF upperNameFromLevel(k) # "" THEN upperNameFromLevel(k) ELSE "LVL" \o k)
    \o " - " \o ToStr(Get(rec, "msg")) \o NL

\* switch (opts.outputMode), rec being the parsed line.
handleRecord(line, opts, rec) ==
    CASE opts.outputMode = OM_PAUL ->
           IF ~isValidRecord(rec) THEN Passthrough(line)
           ELSE PaulOutcome(rec, opts, PaulSteps(rec, opts))
      [] opts.outputMode = OM_INSPECT ->
           Outcome("inspect", <<inspect(Obj(rec)) \o NL>>, FALSE, NoSt)
      [] opts.outputMode = OM_JSON ->
           Outcome("json", <<JSONstringify(Obj(rec), opts.jsonIndent) \o NL>>,
                   FALSE, NoSt)
      [] opts.outputMode = OM_SIMPLE ->
           IF ~isValidRecord(rec) THEN Passthrough(line)
           ELSE Outcome("simple", <<SimpleText(rec, ToStr(Get(rec, "level")))>>,
                        FALSE, NoSt)
      [] OTHER -> Outcome("unknown", <<>>, TRUE, NoSt)

\* handleLogLine without the try/catch around JSON.parse: the variant the
\* passthrough property must tell from the code.
handleParsedUncaught(line, opts, parsed) ==
    IF ~parsed.ok THEN Outcome("parse", <<>>, TRUE, NoSt)
    ELSE handleRecord(line, opts, parsed.v.o)

\* try { rec = JSON.parse(line) } catch (e) { return emit(line + '\n') }
handleParsed(line, opts, parsed) ==
    IF ~parsed.ok THEN Passthrough(line)
    ELSE handleRecord(line, opts, parsed.v.o)

handleLogLine(line, opts) ==
    IF line = "" THEN Passthrough(line)
    ELSE IF Ch(line, 1) # "{" THEN Passthrough(line)
    ELSE handleParsed(line, opts, JSONparse(line))

(***************************************************************************)
(* lib/common.js: formatRecord                                             *)
(***************************************************************************)
\* rec[prefix + k] = sub[k] for every key k left on sub.
RECURSIVE Flatten(_, _, _)
Flatten(rec, prefix, sub) ==
    IF Len(sub) = 0 THEN rec
    ELSE Flatten(Set(rec, prefix \o sub[1].k, sub[1].v), prefix, Tail(sub))

\* typeof (body) === 'object' ? JSON.stringify(body, null, 2) : body
BodyText(body) ==
    IF body.t \in {"obj", "null"} THEN JSONstringify(body, 2) ELSE ToStr(body)

\* Object.keys(x) > 0: the array is compared as the number its keys joined
\* by "," denote, so it holds only for a single key that is a positive
\* number.
KeysGtZero(o) ==
    /\ Len(o) = 1
    /\ Len(o[1].k) > 0
    /\ \A i \in 1..Len(o[1].k) : IsDigit(Ch(o[1].k, i))
    /\ TextNum(o[1].k) > 0

\* req.httpVersion || '1.1'
HttpVersion(x) ==
    IF Truthy(Prop(x, "httpVersion")) THEN ToStr(Prop(x, "httpVersion")) ELSE "1.1"

\* if (rec.req && typeof (rec.req) === 'object')
LibStepReq(st) ==
    LET req == Get(st.rec, "req")
        headers == Prop(req, "headers")
        body == Prop(req, "body")
        trailers == Prop(req, "trailers")
        s1 == ToStr(Prop(req, "method")) \o " " \o ToStr(Prop(req, "url"))
              \o " HTTP/" \o HttpVersion(req)
              \o (IF Truthy(headers) THEN NL \o HeaderLines(headers.o) ELSE "")
        s2 == s1 \o (IF Truthy(body) THEN NL \o NL \o BodyText(body) ELSE "")
        s3 == s2 \o (IF Truthy(trailers) /\ KeysGtZero(trailers.o)
                     THEN NL \o HeaderLines(trailers.o) ELSE "")
        rest == DelAll(req.o, {"url", "method", "httpVersion", "headers", "trailers"}
                              \cup (IF Truthy(body) THEN {"body"} ELSE {}))
    IN IF st.threw THEN st
       ELSE IF ~(Truthy(req) /\ req.t = "obj") THEN st
       ELSE IF Truthy(headers) /\ headers.t # "obj" THEN Throw(st)
       ELSE IF Truthy(trailers) /\ trailers.t # "obj" THEN Throw(st)
       ELSE [st EXCEPT !.details = Append(@, indent(s3)),
                       !.rec = Flatten(Del(@, "req"), "req.", rest)]

\* if (rec.client_req && typeof (rec.client_req) === 'object')
LibStepClientReq(st) ==
    LET creq == Get(st.rec, "client_req")
        headers == Prop(creq, "headers")
        body == Prop(creq, "body")
        hostHeaderLine ==
            IF Truthy(Prop(creq, "address"))
            THEN "Host: " \o ToStr(Prop(creq, "address"))
                 \o (IF Truthy(Prop(creq, "port"))
                     THEN ":" \o ToStr(Prop(creq, "port")) ELSE "")
                 \o NL
            ELSE ""
        s1 == ToStr(Prop(creq, "method")) \o " " \o ToStr(Prop(creq, "url"))
              \o " HTTP/" \o HttpVersion(creq) \o NL \o hostHeaderLine
              \o (IF Truthy(headers) THEN HeaderLines(headers.o) ELSE "")
        s2 == s1 \o (IF Truthy(body) THEN NL \o NL \o BodyText(body) ELSE "")
        rest == DelAll(creq.o, {"headers", "address", "port", "method", "url",
                               "httpVersion"}
                               \cup (IF Truthy(body) THEN {"body"} ELSE {}))
    IN IF st.threw THEN st
       ELSE IF ~(Truthy(creq) /\ creq.t = "obj") THEN st
       ELSE IF Truthy(headers) /\ headers.t # "obj" THEN Throw(st)
       ELSE [st EXCEPT !.details = Append(@, indent(s2)),
                       !.rec = Flatten(Del(@, "client_req"), "client_req.", rest)]

\* function _res(res), called on rec[key]: the descriptor object itself is
\* stripped (it stays so on the record until it is deleted) and what is
\* left of it is copied to rec['res.' + k].
LibRes(st, key) ==
    LET res == Get(st.rec, key)
        header == Prop(res, "header")
        headers == Prop(res, "headers")
        code == Prop(res, "statusCode")
        body == Prop(res, "body")
        trailer == Prop(res, "trailer")
        statusLine ==
            IF Truthy(code)
            THEN "HTTP/1.1 " \o ToStr(code) \o " " \o STATUS_CODES(ToStr(code)) \o NL
            ELSE ""
        s1 == IF Truthy(header) THEN trimRight(header.s)
              ELSE IF Truthy(headers) THEN statusLine \o HeaderLines(headers.o)
              ELSE ""
        s2 == s1 \o (IF Truthy(body) THEN NL \o NL \o BodyText(body) ELSE "")
        s3 == s2 \o (IF Truthy(trailer) THEN NL \o ToStr(trailer) ELSE "")
        rest == DelAll(res.o, {"header", "headers", "statusCode", "trailer"}
                              \cup (IF Truthy(body) THEN {"body"} ELSE {}))
    IN IF Truthy(header) /\ header.t # "str" THEN Throw(st)
       ELSE IF ~Truthy(header) /\ Truthy(headers) /\ headers.t # "obj" THEN Throw(st)
       ELSE [st EXCEPT
               !.details = IF s3 # "" THEN Append(@, indent(s3)) ELSE @,
               !.rec = Flatten(Set(@, key, Obj(rest)), "res.", rest)]

\* if (rec.res && typeof (rec.res) === 'object') { _res(rec.res); delete rec.res; }
LibStepRes(st) ==
    LET res == Get(st.rec, "res") IN
    IF st.threw THEN st
    ELSE IF ~(Truthy(res) /\ res.t = "obj") THEN st
    ELSE LET st1 == LibRes(st, "res") IN
         IF st1.threw THEN st1 ELSE [st1 EXCEPT !.rec = Del(@, "res")]

\* if (rec.client_res && typeof (rec.client_res) === 'object') {
\*     _res(rec.client_res); delete rec.res; }
LibStepClientRes(st) ==
    LET res == Get(st.rec, "client_res") IN
    IF st.threw THEN st
    ELSE IF ~(Truthy(res) /\ res.t = "obj") THEN st
    ELSE LET st1 == LibRes(st, "client_res") IN
         IF st1.threw THEN st1 ELSE [st1 EXCEPT !.rec = Del(@, "res")]

\* short && rec.time[10] == 'T': an object whose member "10" is 'T' has no
\* substr, a TypeError.
TimeThrows(rec, short) ==
    LET time == Get(rec, "time") IN
    short /\ time.t = "obj" /\ Get(time.o, "10") = Str("T")

TimeText(rec, opts, short) ==
    LET time == Get(rec, "time") IN
    IF short /\ time.t = "str" /\ Ch(time.s, 11) = "T"
    THEN Stylize(opts, Sub(time.s, 12, Len(time.s)), "XXX")
    ELSE Stylize(opts, "[" \o ToStr(time) \o "]", "XXX")

\* case OM_SHORT / OM_LONG: the state before the return.
LongSteps(rec, opts, short) ==
    LET st0 == [rec |-> DelAll(rec, {"v", "time", "name", "component", "pid",
                                     "level", "src", "hostname"}),
                extras |-> <<>>, details |-> <<>>, oneline |-> "",
                threw |-> TimeThrows(rec, short)]
    IN StepLeftover(StepErr(LibStepClientRes(LibStepRes(LibStepClientReq(
         LibStepReq(StepMsg(StepReqId(st0), opts)))))))

LongText(rec, opts, short, st) ==
    LET nameStr == ToStr(Get(rec, "name"))
                   \o (IF Truthy(Get(rec, "component"))
                       THEN "/" \o ToStr(Get(rec, "component")) ELSE "")
                   \o (IF ~short THEN "/" \o ToStr(Get(rec, "pid")) ELSE "")
        hostname == IF Truthy(Get(rec, "hostname"))
                    THEN ToStr(Get(rec, "hostname")) ELSE "<no-hostname>"
    IN IF ~short
       THEN TimeText(rec, opts, short) \o " " \o LevelText(rec, opts) \o ": "
            \o nameStr \o " on " \o hostname \o SrcText(rec, opts) \o ":"
            \o st.oneline \o ExtrasText(st, opts) \o NL \o DetailsText(st, opts)
       ELSE TimeText(rec, opts, short) \o " " \o LevelText(rec, opts) \o " "
            \o nameStr \o ":" \o st.oneline \o ExtrasText(st, opts) \o NL
            \o DetailsText(st, opts)

LongOutcome(rec, opts, short, st) ==
    IF st.threw THEN Outcome("long", <<>>, TRUE, st)
    ELSE Outcome("long", <<LongText(rec, opts, short, st)>>, FALSE, st)

\* formatRecord(rec, line, opts, stylize): emitted = <<the string returned>>,
\* or threw.
formatRecord(rec, line, opts) ==
    CASE opts.outputMode \in {OM_SHORT, OM_LONG} ->
           LongOutcome(rec, opts, opts.outputMode = OM_SHORT,
                       LongSteps(rec, opts, opts.outputMode = OM_SHORT))
      [] opts.outputMode = OM_INSPECT ->
           Outcome("inspect", <<inspect(Obj(rec)) \o NL>>, FALSE, NoSt)
      [] opts.outputMode = OM_BUNYAN ->
           Outcome("bunyan", <<JSONstringify(Obj(rec), 0) \o NL>>, FALSE, NoSt)
      [] opts.outputMode = OM_JSON ->
           Outcome("json", <<JSONstringify(Obj(rec), opts.jsonIndent) \o NL>>,
                   FALSE, NoSt)
      [] opts.outputMode = OM_SIMPLE ->
           Outcome("simple", <<SimpleText(rec, ToStr(Get(rec, "level")))>>,
                   FALSE, NoSt)
      [] OTHER -> Outcome("unknown", <<>>, TRUE, NoSt)

\* The caller of formatRecord (spec 4.2, steps 1 and 2): a line that is
\* empty, does not start with "{", does not parse, or (long, short and
\* simple modes) lacks a required field is passed through; any other is
\* given to formatRecord and the result emitted.
libHandleParsed(line, opts, parsed) ==
    IF ~parsed.ok THEN Passthrough(line)
    ELSE IF opts.outputMode \in {OM_LONG, OM_SHORT, OM_SIMPLE}
            /\ ~isValidRecord(parsed.v.o)
    THEN Passthrough(line)
    ELSE formatRecord(parsed.v.o, line, opts)

libHandleLogLine(line, opts) ==
    IF line = "" \/ Ch(line, 1) # "{" THEN Passthrough(line)
    ELSE libHandleParsed(line, opts, JSONparse(line))

(***************************************************************************)
(* bin/bunyan: the stream driver                                           *)
(*                                                                         *)
(* Sources are numbered 1..NSrc: the files of the argument list, or the    *)
(* single source stdin when no file is named.                              *)
(***************************************************************************)
VARIABLES
    impl,           \* "bin": handleLogLine of bin/bunyan; "lib": formatRecord
    opts,           \* parseArgv's result: outputMode, color, jsonIndent
    files,          \* opts.args: for each file, whether it can be opened
    stream,         \* per source: "unopened", "open", "end", "error"
    leftover,       \* per source: the closure variable leftover
    fed,            \* per source: the text its 'data' events delivered so far
    completed,      \* asyncForEachSeries: completed
    seriesDone,     \* asyncForEachSeries: callback was replaced by a no-op
    handled,        \* the calls of handleLogLine so far, with their outcome
    nflushed,       \* how many written strings reached the reader
    busy,           \* the sink cannot take data now: write() returns false
    readerClosed,   \* the downstream reader closed its end of the pipe
    errq,           \* 'error' events pending on process.stdout (codes)
    stdoutFlushed,
    drainExit,      \* exit codes of the 'drain' listeners drainStdoutAndExit added
    retval,
    warned,         \* the diagnostics given to warn(), in order
    exited,         \* the process is gone
    exitCode,
    exitVia,        \* "main", "drain", "uncaught" (exception out of a handler)
    sawEpipe,       \* the 'error' handler of process.stdout ran for an EPIPE
    ndata           \* number of 'data' events so far

vars == <<impl, opts, files, stream, leftover, fed, completed, seriesDone,
          handled, nflushed, busy, readerClosed, errq, stdoutFlushed,
          drainExit, retval, warned, exited, exitCode, exitVia, sawEpipe,
          ndata>>

\* Bounds of the model.
MaxFiles == 2
MaxData == 2

NSrc == IF Len(files) = 0 THEN 1 ELSE Len(files)
IsStdin == Len(files) = 0

\* Every string the driver gave to process.stdout.write, in order.
RECURSIVE UnitsOf(_)
UnitsOf(h) ==
    IF Len(h) = 0 THEN <<>> ELSE h[1].res.emitted \o UnitsOf(Tail(h))

Written == UnitsOf(handled)

\* The lines source i gave to handleLogLine, in order.
LinesOf(i) ==
    LET h == SelectSeq(handled, LAMBDA e : e.src = i) IN
    [j \in 1..Len(h) |-> h[j].line]

\* The machine state a handler works on.
Mach == [leftover |-> leftover, handled |-> handled, nflushed |-> nflushed,
         errq |-> errq, stdoutFlushed |-> stdoutFlushed, threw |-> FALSE]

render(line) ==
    IF impl = "bin" THEN handleLogLine(line, opts) ELSE libHandleLogLine(line, opts)

\* emit(s): stdoutFlushed = process.stdout.write(s) inside try/catch.  On a
\* closed reader the write either throws (wmode "throw", the catch swallows
\* it) or fails later by an 'error' event with code EPIPE (wmode "event").
emit(m, wmode) ==
    IF readerClosed
    THEN IF wmode = "throw" THEN m
         ELSE [m EXCEPT !.stdoutFlushed = FALSE, !.errq = @ \cup {"EPIPE"}]
    ELSE IF busy THEN [m EXCEPT !.stdoutFlushed = FALSE]
    ELSE [m EXCEPT !.stdoutFlushed = TRUE, !.nflushed = Len(UnitsOf(m.handled))]

\* What the call did to the machine, r being what handleLogLine did.
afterLine(m, wmode, r) ==
    IF r.threw THEN [m EXCEPT !.threw = TRUE]
    ELSE IF Len(r.emitted) = 0 THEN m
    ELSE emit(m, wmode)

recordLine(m, i, line, wmode, r) ==
    afterLine([m EXCEPT !.handled = Append(@, [src |-> i, line |-> line,
                                               res |-> r])],
              wmode, r)

\* One call handleLogLine(line, opts, stylize) from source i.
doLine(m, i, line, wmode) ==
    IF m.threw THEN m ELSE recordLine(m, i, line, wmode, render(line))

RECURSIVE doLines(_, _, _, _)
doLines(m, i, lines, wmode) ==
    IF Len(lines) = 0 THEN m
    ELSE doLines(doLine(m, i, Head(lines), wmode), i, Tail(lines), wmode)

\* leftover = lines.pop()
popLeftover(m, i, lines) ==
    IF m.threw THEN m ELSE [m EXCEPT !.leftover[i] = lines[Len(lines)]]

onLines(m, i, lines, wmode) ==
    IF Len(lines) = 1 THEN [m EXCEPT !.leftover[i] = @ \o lines[1]]
    ELSE doLines(popLeftover(doLine(m, i, m.leftover[i] \o lines[1], wmode),
                             i, lines),
                 i, SubSeq(lines, 2, Len(lines) - 1), wmode)

\* stream.on('data', function (chunk) {...}) of processFile / processStdin.
onData(m, i, chunk, wmode) == onLines(m, i, SplitLines(chunk), wmode)

clearLeftover(m, i) ==
    IF m.threw THEN m ELSE [m EXCEPT !.leftover[i] = ""]

\* An 'end' handler that drops the pending buffer: the variant the flush
\* property must tell from the code.
onEndNoFlush(m, i, wmode) == clearLeftover(m, i)

\* stream.on('end', ...) up to the callback() call.
onEnd(m, i, wmode) ==
    IF m.leftover[i] # ""
    THEN clearLeftover(doLine(m, i, m.leftover[i], wmode), i)
    ELSE m

\* The per-file callback forwarding its error, next(err): the variant the
\* isolation property must tell from the code.
nextArgForwarded(err) == err

\* main: the argument the per-file callback gives to next(): none.
nextArg(err) == FALSE

\* A forEach that starts the iterator on every element at once: the variant
\* the sequencing property must tell from the code.
seriesStartAll(n) == 1..n

\* asyncForEachSeries: the elements iterate() is started on by the call.
seriesStart(n) == IF n = 0 THEN {} ELSE {1}

ExitNow(code, via) ==
    /\ exited' = TRUE
    /\ exitCode' = code
    /\ exitVia' = via

NoExit == UNCHANGED <<exited, exitCode, exitVia>>

\* An exception out of an event handler ends the process.
Uncaught == ExitNow(1, "uncaught")

\* drainStdoutAndExit(code), with flushed = stdoutFlushed at the call.
drainStdoutAndExit(code, flushed) ==
    /\ drainExit' = Append(drainExit, code)
    /\ IF flushed THEN ExitNow(code, "drain") ELSE NoExit

\* The callback main gives to processFile / processStdin, and what next()
\* does in asyncForEachSeries.  failedNow = it was called with an error;
\* flushed = stdoutFlushed at the call; st = the stream states at the call.
callback(i, failedNow, flushed, st) ==
    IF IsStdin
    THEN /\ ExitNow(retval, "main")
         /\ stream' = st
         /\ UNCHANGED <<retval, warned, completed, seriesDone, drainExit>>
    ELSE LET rv == IF failedNow THEN retval + 1 ELSE retval IN
         /\ retval' = rv
         /\ warned' = (IF failedNow THEN Append(warned, "open") ELSE warned)
                       \o (IF nextArg(failedNow) /\ ~seriesDone
                           THEN <<"unexpected">> ELSE <<>>)
         /\ IF nextArg(failedNow)
            THEN /\ IF seriesDone
                    THEN /\ NoExit
                         /\ UNCHANGED drainExit
                    ELSE drainStdoutAndExit(1, flushed)
                 /\ seriesDone' = TRUE
                 /\ stream' = st
                 /\ UNCHANGED completed
            ELSE /\ completed' = completed + 1
                 /\ UNCHANGED <<seriesDone, drainExit>>
                 /\ IF completed + 1 = Len(files)
                    THEN /\ IF seriesDone THEN NoExit ELSE ExitNow(rv, "main")
                         /\ stream' = st
                    ELSE /\ NoExit
                         /\ stream' =
                              IF completed + 2 <= Len(files)
                              THEN [st EXCEPT ![completed + 2] = "open"]
                              ELSE st

SetMach(m) ==
    /\ leftover' = m.leftover
    /\ handled' = m.handled
    /\ nflushed' = m.nflushed
    /\ errq' = m.errq
    /\ stdoutFlushed' = m.stdoutFlushed

WriteModes == {"throw", "event"}

\* The ways a write can fail now.
WriteModesNow == IF readerClosed THEN WriteModes ELSE {"event"}

\* Source i can be read: stdin, or a file that can be opened.
Readable(i) == IF IsStdin THEN TRUE ELSE files[i]

\* A 'data' event on source i.
StreamData(i, chunk, wmode) ==
    /\ ~exited
    /\ stream[i] = "open"
    /\ Readable(i)
    /\ ndata < MaxData
    /\ \E m \in {onData(Mach, i, chunk, wmode)} :
       /\ SetMach(m)
       /\ IF m.threw THEN Uncaught ELSE NoExit
    /\ fed' = [fed EXCEPT ![i] = @ \o chunk]
    /\ ndata' = ndata + 1
    /\ UNCHANGED <<impl, opts, files, stream, completed, seriesDone, busy,
                   readerClosed, drainExit, retval, warned, sawEpipe>>

\* The 'end' event on source i.
StreamEnd(i, wmode) ==
    /\ ~exited
    /\ stream[i] = "open"
    /\ Readable(i)
    /\ \E m \in {onEnd(Mach, i, wmode)} :
       /\ SetMach(m)
       /\ IF m.threw
          THEN /\ Uncaught
               /\ UNCHANGED <<stream, completed, seriesDone, drainExit, retval,
                              warned>>
          ELSE callback(i, FALSE, m.stdoutFlushed, [stream EXCEPT ![i] = "end"])
    /\ UNCHANGED <<impl, opts, files, fed, busy, readerClosed, sawEpipe, ndata>>

\* The 'error' event on the read stream of a file that cannot be opened.
StreamError(i) ==
    /\ ~exited
    /\ stream[i] = "open"
    /\ ~Readable(i)
    /\ callback(i, TRUE, stdoutFlushed, [stream EXCEPT ![i] = "error"])
    /\ UNCHANGED <<impl, opts, files, leftover, fed, handled, nflushed, busy,
                   readerClosed, errq, stdoutFlushed, sawEpipe, ndata>>

(***************************************************************************)
(* process.stdout and its reader                                           *)
(***************************************************************************)
\* The pipe fills up: from now on write() queues and returns false.
SinkFull ==
    /\ ~exited /\ ~busy /\ ~readerClosed
    /\ busy' = TRUE
    /\ UNCHANGED <<impl, opts, files, stream, leftover, fed, completed,
                   seriesDone, handled, nflushed, readerClosed, errq,
                   stdoutFlushed, drainExit, retval, warned, exited, exitCode,
                   exitVia, sawEpipe, ndata>>

\* The reader catches up: what was queued is flushed, and when something
\* was queued 'drain' fires, running the listeners drainStdoutAndExit added.
SinkDrain ==
    /\ ~exited /\ busy /\ ~readerClosed
    /\ busy' = FALSE
    /\ nflushed' = Len(Written)
    /\ IF nflushed < Len(Written) /\ Len(drainExit) > 0
       THEN ExitNow(drainExit[1], "drain")
       ELSE NoExit
    /\ UNCHANGED <<impl, opts, files, stream, leftover, fed, completed,
                   seriesDone, handled, readerClosed, errq, stdoutFlushed,
                   drainExit, retval, warned, sawEpipe, ndata>>

\* The downstream reader closes its input.
ReaderClose ==
    /\ ~exited /\ ~readerClosed
    /\ readerClosed' = TRUE
    /\ UNCHANGED <<impl, opts, files, stream, leftover, fed, completed,
                   seriesDone, handled, nflushed, busy, errq, stdoutFlushed,
                   drainExit, retval, warned, exited, exitCode, exitVia,
                   sawEpipe, ndata>>

\* A write fails for another reason than a closed reader.
SinkFault ==
    /\ ~exited /\ "EIO" \notin errq /\ Len(drainExit) = 0
    /\ errq' = errq \cup {"EIO"}
    /\ UNCHANGED <<impl, opts, files, stream, leftover, fed, completed,
                   seriesDone, handled, nflushed, busy, readerClosed,
                   stdoutFlushed, drainExit, retval, warned, exited, exitCode,
                   exitVia, sawEpipe, ndata>>

\* An 'error' handler without the EPIPE branch: the variant the broken-pipe
\* property must tell from the code.
ignoredErrorNone(code) == FALSE

\* if (err.code === "EPIPE") { /* Pass */ }: the error is ignored.
ignoredError(code) == code = "EPIPE"

\* process.stdout.on("error", function (err) {...})
StdoutError(code) ==
    /\ ~exited /\ code \in errq
    /\ errq' = errq \ {code}
    /\ sawEpipe' = (sawEpipe \/ code = "EPIPE")
    /\ IF ignoredError(code)
       THEN /\ NoExit
            /\ UNCHANGED <<drainExit, warned>>
       ELSE /\ warned' = Append(warned, code)
            /\ drainStdoutAndExit(1, stdoutFlushed)
    /\ UNCHANGED <<impl, opts, files, stream, leftover, fed, completed,
                   seriesDone, handled, nflushed, busy, readerClosed,
                   stdoutFlushed, retval, ndata>>

(***************************************************************************)
(* The driver on chunked text                                              *)
(***************************************************************************)
Opts(m, c, n) == [outputMode |-> m, color |-> c, jsonIndent |-> n]

\* A record with the seven required fields whose msg is not a string.
BadMsgLine ==
    "{\"v\":0,\"level\":30,\"name\":\"a\",\"hostname\":\"h\",\"pid\":1,\"time\":\"t\",\"msg\":5}"

\* The chunks a read delivers.
Chunks == {"a", CR, NL, "b" \o NL \o "c", BadMsgLine \o NL}

\* main(argv) up to the first processFile / processStdin call.
InitWith(i, o, f) ==
    /\ impl = i
    /\ opts = o
    /\ files = f
    /\ stream = [k \in 1..(IF Len(f) = 0 THEN 1 ELSE Len(f)) |->
                    IF Len(f) = 0 \/ k \in seriesStart(Len(f))
                    THEN "open" ELSE "unopened"]
    /\ leftover = [k \in 1..(IF Len(f) = 0 THEN 1 ELSE Len(f)) |-> ""]
    /\ fed = [k \in 1..(IF Len(f) = 0 THEN 1 ELSE Len(f)) |-> ""]
    /\ completed = 0
    /\ seriesDone = FALSE
    /\ handled = <<>>
    /\ nflushed = 0
    /\ busy = FALSE
    /\ readerClosed = FALSE
    /\ errq = {}
    /\ stdoutFlushed = TRUE
    /\ drainExit = <<>>
    /\ retval = 0
    /\ warned = <<>>
    /\ exited = FALSE
    /\ exitCode = 0
    /\ exitVia = ""
    /\ sawEpipe = FALSE
    /\ ndata = 0

FileLists == UNION {[1..n -> BOOLEAN] : n \in 0..MaxFiles}

Init ==
    \E f \in FileLists : InitWith("bin", Opts(OM_PAUL, FALSE, 2), f)

Next ==
    \/ \E i \in 1..NSrc, chunk \in Chunks, w \in WriteModesNow :
          StreamData(i, chunk, w)
    \/ \E i \in 1..NSrc, w \in WriteModesNow : StreamEnd(i, w)
    \/ \E i \in 1..NSrc : StreamError(i)
    \/ SinkFull
    \/ SinkDrain
    \/ ReaderClose
    \/ SinkFault
    \/ \E code \in errq : StdoutError(code)

Spec == Init /\ [][Next]_vars

(***************************************************************************)
(* The formatter on whole lines                                            *)
(***************************************************************************)
\* The fields isValidRecord asks for.
Required == <<"v", "level", "name", "hostname", "pid", "time", "msg">>

RequiredSet == {Required[j] : j \in 1..Len(Required)}

\* The lines handleLogLine is given are JSON texts: a record with every
\* required field, varied in one field or extended by other members.
BaseValue(k) ==
    CASE k = "v" -> "0"
      [] k = "level" -> "30"
      [] k = "pid" -> "1"
      [] k = "name" -> Quote("a")
      [] k = "hostname" -> Quote("h")
      [] k = "time" -> Quote("t")
      [] OTHER -> Quote("m")

Member(k, t) == Quote(k) \o ":" \o t

Object(members) == "{" \o Join(members, ",") \o "}"

\* The record whose required field k has the JSON text t (k is left out
\* when t is ""; k = "" changes no field), followed by the members extra.
RecordLine(k, t, extra) ==
    Object(SelectSeq([j \in 1..Len(Required) |->
                        IF Required[j] # k
                        THEN Member(Required[j], BaseValue(Required[j]))
                        ELSE IF t = "" THEN "" ELSE Member(k, t)],
                     LAMBDA x : x # "")
           \o extra)

\* Lines that are no JSON object.
RawLines == {"", "hello", " {}", "[1]", "{", "{bad", "{\"v\":0"}

\* JSON objects that are no log record.
ForeignLines ==
    {"{}", Object(<<Member("a", "1")>>), "{ \"a\" : { \"b\" : 1e999 } } "}

\* Records with one required field missing or null.
MissingLines == {RecordLine(k, t, <<>>) : k \in RequiredSet, t \in {"", "null"}}

\* Records with one required field of another value or type.
FieldValues ==
    {<<"msg", "5">>, <<"msg", "false">>, <<"msg", "{}">>, <<"msg", Quote("")>>,
     <<"msg", Quote("m" \o NL)>>, <<"msg", Quote("a" \o NL \o "b")>>,
     <<"msg", Quote(ESC \o "[1m")>>,
     <<"level", "35">>, <<"level", "50">>, <<"level", Quote("30")>>,
     <<"time", Quote("2020-01-01T00:00:00.000Z")>>, <<"time", "5">>,
     <<"v", "false">>, <<"hostname", Quote("")>>, <<"name", "7">>}

FieldLines == {RecordLine(f[1], f[2], <<>>) : f \in FieldValues}

HeadersText == Object(<<Member("a", Quote("b")), Member("c", "1")>>)

\* The members a record carries besides the required ones.
KnownMembers ==
    {<<"component", Quote("c")>>,
     <<"src", "5">>, <<"src", "null">>,
     <<"src", Object(<<Member("file", Quote("f")), Member("line", "1")>>)>>,
     <<"src", Object(<<Member("file", Quote("f")), Member("line", "1"),
                       Member("func", Quote("g"))>>)>>,
     <<"req_id", Quote("r")>>, <<"req_id", "0">>, <<"req_id", Quote("")>>,
     <<"req_id", "false">>,
     <<"latency", "5">>, <<"latency", "0">>,
     <<"req", "{}">>, <<"req", Quote("s")>>,
     <<"req", Object(<<Member("method", Quote("GET")), Member("url", Quote("/")),
                       Member("headers", HeadersText)>>)>>,
     <<"req", Object(<<Member("method", Quote("GET")), Member("url", Quote("/")),
                       Member("headers", HeadersText),
                       Member("body", Quote("B")),
                       Member("trailers", HeadersText),
                       Member("foo", "1")>>)>>,
     <<"client_req", "{}">>,
     <<"client_req", Object(<<Member("method", Quote("GET")),
                              Member("url", Quote("/")),
                              Member("address", Quote("h")),
                              Member("port", "80"),
                              Member("headers", HeadersText),
                              Member("foo", "1")>>)>>,
     <<"res", "{}">>, <<"res", "5">>,
     <<"res", Object(<<Member("statusCode", "200"),
                       Member("headers", HeadersText),
                       Member("body", Quote("B")), Member("foo", "1")>>)>>,
     <<"res", Object(<<Member("header",
                              Quote("HTTP/1.1 200 OK" \o CR \o NL \o CR \o NL))>>)>>,
     <<"client_res", Object(<<Member("statusCode", "404"),
                              Member("headers", HeadersText),
                              Member("foo", "1")>>)>>,
     <<"err", "5">>, <<"err", "{}">>,
     <<"err", Object(<<Member("stack", Quote("s"))>>)>>,
     <<"err", Object(<<Member("stack", Quote("s" \o NL))>>)>>}

\* Values of a field the formatter knows nothing about.
LeftoverValues ==
    {Quote(""), Quote("ab"), Quote("a b"), Quote("x" \o NL), Quote("x" \o NL \o "y"),
     Quote(Rep("x", InlineMax - 1)), Quote(Rep("x", InlineMax)),
     Quote(Rep("x", InlineMax + 1)), Quote("a " \o Rep("x", InlineMax - 2)),
     Quote("a " \o Rep("x", InlineMax - 1)),
     "5", "true", "null", "{}", Object(<<Member("a", "1")>>),
     "1e2", "1e999", Object(<<Member("a", "1"), Member("a", Quote(ESC))>>)}

MemberLines ==
    {RecordLine("", "", <<Member(f[1], f[2])>>) : f \in KnownMembers}
    \cup {RecordLine("", "", <<Member("x", t)>>) : t \in LeftoverValues}
    \cup {RecordLine("", "", <<Member("req.foo", Quote("lit")),
                                Member("req", Object(<<Member("headers", "{}"),
                                                       Member("foo", "1")>>))>>),
          RecordLine("", "", <<Member("x", Quote("a b")), Member("y", "{}"),
                                Member("z", Quote("x" \o NL))>>),
          RecordLine("", "", <<Member("x", Quote(Rep("x", InlineMax))),
                                Member("y", Quote(Rep("y", InlineMax + 1))),
                                Member("z", Quote(""))>>)}

Lines ==
    {RecordLine("", "", <<>>)} \cup RawLines \cup ForeignLines \cup MissingLines
    \cup FieldLines \cup MemberLines

\* The output modes of each implementation, with and without colour; the
\* JSON indentation is parseArgv's default or 0.
OptsOf(i) ==
    {Opts(m, c, 2) : m \in (IF i = "bin" THEN BinModes ELSE LibModes),
                     c \in BOOLEAN}
    \cup {Opts(OM_JSON, FALSE, 0)}

InitFormat ==
    \E i \in {"bin", "lib"} : \E o \in OptsOf(i) : InitWith(i, o, <<>>)

\* One line arrives on stdin, with its terminator.
FormatLine(line) ==
    /\ ndata = 0
    /\ StreamData(1, line \o NL, "event")

NextFormat ==
    \/ \E line \in Lines : FormatLine(line)
    \/ StreamEnd(1, "event")

SpecFormat == InitFormat /\ [][NextFormat]_vars

(***************************************************************************)
(* Properties                                                              *)
(***************************************************************************)
Range(q) == {q[j] : j \in 1..Len(q)}

Calls == 1..Len(handled)

\* The logical lines of a text that arrives as one chunk followed by 'end':
\* the pieces of the split, the last one only when it is not empty.
WholeLines(text) ==
    SelectSeq([j \in 1..Len(SplitLines(text)) |->
                 [n |-> j, line |-> SplitLines(text)[j]]],
              LAMBDA e : e.n < Len(SplitLines(text)) \/ e.line # "")

LineTexts(q) == [j \in 1..Len(q) |-> q[j].line]

\* C1: chunk-boundary invariance.  When a source has ended, the lines it
\* gave to handleLogLine are those of its whole text, however the text was
\* cut into chunks, a cut between "\r" and "\n" included.
C1_ChunkInvariance ==
    \A i \in 1..NSrc :
        stream[i] = "end" => LinesOf(i) = LineTexts(WholeLines(fed[i]))

\* The line is empty, does not start with "{", or is not JSON.
NotJson(line) == line = "" \/ Ch(line, 1) # "{" \/ ~JSONparse(line).ok

\* C2: verbatim passthrough.  In every output mode a line that is empty,
\* does not start with "{" or fails JSON parsing is written as the line
\* followed by one "\n", and nothing else is written for it.
C2_VerbatimPassthrough ==
    \A j \in Calls :
        NotJson(handled[j].line) =>
            /\ ~handled[j].res.threw
            /\ handled[j].res.emitted = <<handled[j].line \o NL>>

\* A line that starts with "{" and is not JSON went through the inspect
\* mode of bin/bunyan.
C2_Witness ==
    /\ impl = "bin" /\ opts.outputMode = OM_INSPECT
    /\ \E j \in Calls :
          /\ handled[j].line = "{bad"
          /\ handled[j].res.emitted = <<"{bad" \o NL>>

\* The record lacks a required field: the key is absent or its value null.
Lacks(rec) == \E k \in RequiredSet : ~HasKey(rec, k) \/ Get(rec, k).t = "null"

\* C3: required fields.  In the long, short and simple modes a JSON object
\* that lacks one of v, level, name, hostname, pid, time, msg is written as
\* the line followed by "\n"; a record that has all seven is never passed
\* through.
C3_RequiredFields ==
    \A j \in Calls :
        (opts.outputMode \in {OM_LONG, OM_SHORT, OM_SIMPLE}
         /\ ~NotJson(handled[j].line)) =>
            IF Lacks(JSONparse(handled[j].line).v.o)
            THEN /\ ~handled[j].res.threw
                 /\ handled[j].res.emitted = <<handled[j].line \o NL>>
            ELSE /\ handled[j].res.path # "passthrough"
                 /\ handled[j].res.emitted # <<handled[j].line \o NL>>

\* A record whose msg is null was passed through by bin/bunyan in the
\* default mode.
C3_Witness ==
    /\ impl = "bin" /\ opts.outputMode = OM_PAUL
    /\ \E j \in Calls :
          /\ handled[j].line = RecordLine("msg", "null", <<>>)
          /\ handled[j].res.path = "passthrough"

\* C4: no rendering path raises.  Every call of handleLogLine / formatRecord
\* returns normally and writes something for its line, whatever the types
\* of the record's values.
C4_NoRenderingRaises ==
    \A j \in Calls :
        ~handled[j].res.threw /\ Len(handled[j].res.emitted) > 0

\* C5: one trailing newline.  Every string written for a line ends with
\* "\n", and the character before that "\n" is not "\n".
C5_OneTrailingNewline ==
    \A j \in Calls : \A u \in Range(handled[j].res.emitted) :
        /\ Len(u) > 0
        /\ Ch(u, Len(u)) = NL
        /\ Ch(u, Len(u) - 1) # NL

\* The files whose read stream gave 'error'.
Failed == {i \in 1..Len(files) : stream[i] = "error"}

Unopenable == {i \in 1..Len(files) : ~files[i]}

\* C6: a file that cannot be opened is counted and does not stop the
\* series: the next file is opened; and when every file is done the
\* process has exited with the number of failed files as its status (0 when
\* none failed).
C6_OpenFailureIsolated ==
    ~IsStdin =>
        /\ retval = Cardinality(Failed)
        /\ \A i \in 1..(Len(files) - 1) :
              stream[i] = "error" => stream[i + 1] # "unopened"
        /\ (\A i \in 1..Len(files) : stream[i] \in {"end", "error"}) =>
              /\ exited /\ exitVia = "main"
              /\ exitCode = Cardinality(Unopenable)
        /\ (exited /\ exitVia = "main") =>
              /\ \A i \in 1..Len(files) :
                    stream[i] = IF files[i] THEN "end" ELSE "error"
              /\ exitCode = Cardinality(Unopenable)

\* The first of two files could not be opened, the second was read to its
\* end, and the process exited with status 1.
C6_Witness ==
    /\ Len(files) = 2
    /\ stream = <<"error", "end">>
    /\ Len(LinesOf(2)) > 0
    /\ exited /\ exitVia = "main" /\ exitCode = 1

\* What was written for the lines of the sources i, i + 1, ..., source by
\* source.
RECURSIVE WrittenFrom(_)
WrittenFrom(i) ==
    IF i > NSrc THEN <<>>
    ELSE UnitsOf(SelectSeq(handled, LAMBDA e : e.src = i)) \o WrittenFrom(i + 1)

\* C7: the sources are processed one after another in argument order.  A
\* file is opened, and a line of it rendered, only after the file before it
\* gave 'end' or 'error'; what is written is the concatenation, source by
\* source, of what was written for each source's lines.
C7_Sequential ==
    /\ \A i \in 2..NSrc :
          stream[i] # "unopened" => stream[i - 1] \in {"end", "error"}
    /\ \A j \in Calls : \A i \in 1..(handled[j].src - 1) :
          stream[i] \in {"end", "error"}
    /\ \A j \in Calls : \A k \in Calls :
          j < k => handled[j].src <= handled[k].src
    /\ Written = WrittenFrom(1)

\* Lines of two files were rendered, those of the first file first.
C7_Witness ==
    /\ Len(handled) >= 2
    /\ handled[1].src = 1
    /\ handled[Len(handled)].src = 2

C9_OneWriteOutstanding ==
    ~readerClosed => Len(Written) - nflushed <= 1

\* The string form of a leftover value: the string itself, or
\* JSON.stringify(value, null, 2).
StringForm(v) == IF v.t = "str" THEN v.s ELSE JSONstringify(v, 2)

\* C10: a leftover field of a long/short rendering is a detail block
\* "key: value" exactly when its string form has a newline or more than 50
\* characters; otherwise it is an extra "key=value", the value JSON-quoted
\* when it is a string that is empty or has a space.
C10_InlineDetailThreshold ==
    \A j \in Calls :
        (handled[j].res.path \in {"paul", "long"} /\ ~handled[j].res.threw) =>
            \A m \in Range(handled[j].res.left) :
                IF Contains(StringForm(m.v), NL) \/ Len(StringForm(m.v)) > 50
                THEN /\ indent(m.k \o ": " \o StringForm(m.v))
                           \in Range(handled[j].res.details)
                     /\ \A x \in Range(handled[j].res.extras) :
                           Sub(x, 1, Len(m.k) + 1) # m.k \o "="
                ELSE /\ (m.k \o "="
                         \o (IF m.v.t = "str"
                                /\ (m.v.s = "" \/ Contains(m.v.s, " "))
                             THEN Quote(m.v.s) ELSE StringForm(m.v)))
                           \in Range(handled[j].res.extras)
                     /\ indent(m.k \o ": " \o StringForm(m.v))
                           \notin Range(handled[j].res.details)

\* A record with a 50-character field, a 51-character field and an empty
\* field was rendered: the first and the last are extras, the second is a
\* detail block.
C10_Witness ==
    \E j \in Calls :
        /\ handled[j].res.path \in {"paul", "long"}
        /\ handled[j].res.extras =
              <<"x=" \o Rep("x", 50), "z=" \o Quote("")>>
        /\ handled[j].res.details = <<indent("y: " \o Rep("y", 51))>>

\* Deep equality of two values: objects have the same keys with deep-equal
\* values, whatever the order of the keys; other values are the same.
RECURSIVE DeepEqual(_, _)
DeepEqual(a, b) ==
    IF a.t = "obj" /\ b.t = "obj"
    THEN /\ {m.k : m \in Range(a.o)} = {m.k : m \in Range(b.o)}
         /\ \A m \in Range(a.o) : DeepEqual(m.v, Get(b.o, m.k))
    ELSE a = b

\* The call was made in the json mode with indent 0.
JsonZero == opts.outputMode = OM_JSON /\ opts.jsonIndent = 0

\* C11: raw JSON round trip.  In the json mode with indent 0, whatever is
\* written for a line that parses as a JSON object parses again, to a value
\* deep-equal to the one the line parsed to: no field is removed, added or
\* changed.
C11_JsonRoundTrip ==
    JsonZero =>
        \A j \in Calls :
            ~NotJson(handled[j].line) =>
                /\ ~handled[j].res.threw
                /\ Len(handled[j].res.emitted) = 1
                /\ JSONparse(handled[j].res.emitted[1]).ok
                /\ DeepEqual(JSONparse(handled[j].res.emitted[1]).v,
                             JSONparse(handled[j].line).v)

\* The descriptors of an HTTP message, and the sub-keys of each that the
\* formatter renders in the descriptor's detail block.
HttpDescriptors == {"req", "client_req", "res", "client_res"}

Recognized(P) ==
    CASE P = "req" -> {"method", "url", "httpVersion", "headers", "body", "trailers"}
      [] P = "client_req" -> {"method", "url", "httpVersion", "headers", "body",
                              "address", "port"}
      [] OTHER -> {"header", "headers", "statusCode", "body", "trailer"}

\* The value v of the descriptor P is rendered as a detail block: an HTTP
\* descriptor with headers (client_res is one for lib/common.js only), an
\* err with a stack.
RenderedAsBlock(P, v) ==
    IF P = "err" THEN Truthy(Prop(v, "stack"))
    ELSE /\ v.t = "obj"
         /\ Prop(v, "headers").t = "obj"
         /\ (P = "client_res" => impl = "lib")

\* The keys of a record the formatter takes out by name.
WellKnown ==
    RequiredSet \cup HttpDescriptors
    \cup {"component", "src", "req_id", "latency", "err"}

\* rec = the record as parsed, res = what its rendering left behind.
DestructiveExtraction(rec, res) ==
    /\ \A P \in HttpDescriptors \cup {"err"} :
          RenderedAsBlock(P, Get(rec, P)) => ~HasKey(res.left, P)
    /\ \A P \in HttpDescriptors :
          Get(rec, P).t = "obj" =>
              \A m \in Range(Get(rec, P).o) :
                  m.k \notin Recognized(P) =>
                      /\ HasKey(res.left, P \o "." \o m.k)
                      /\ Get(res.left, P \o "." \o m.k) = m.v
    /\ \A m \in Range(rec) :
          m.k \notin WellKnown =>
              HasKey(res.left, m.k) /\ Get(res.left, m.k) = Get(rec, m.k)

\* C12: destructive extraction.  In the human-readable modes a descriptor
\* (req, client_req, res, client_res, err) that was rendered as a detail
\* block is no longer on the record when the leftovers are rendered; every
\* unrecognized sub-key k of an HTTP descriptor P is a leftover named "P.k"
\* with the value it had; and every other field of the record is a leftover
\* with its own value, none overwritten.
C12_DestructiveExtraction ==
    \A j \in Calls :
        (handled[j].res.path \in {"paul", "long"} /\ ~handled[j].res.threw) =>
            DestructiveExtraction(JSONparse(handled[j].line).v.o, handled[j].res)

\* The text with a terminator after its last line, when it has none.
Terminated(text) ==
    IF text = "" \/ Ch(text, Len(text)) = NL THEN text ELSE text \o NL

\* The content of a text, whatever the style of its terminators: every
\* terminator written as "\n".
Content(text) == Join(SplitLines(text), NL)

\* The lines source i gave to handleLogLine, each followed by a terminator.
Reconstructed(lines) == Cat([j \in 1..Len(lines) |-> lines[j] \o NL], 1, Len(lines))

\* The step in which source i gives 'end' and its callback runs.
EndOf(i) == stream[i] = "open" /\ stream'[i] = "end"

\* C13: end-of-input flush.  When a source gives 'end', a pending buffer
\* that is not empty is handed to handleLogLine once, as the last line of
\* that source, in the step that runs the completion callback, and the
\* buffer is cleared; an empty buffer adds no line; no line of the source
\* follows.  The lines of an ended source, each followed by a terminator,
\* are the content of what the source delivered.
C13_EndFlush ==
    /\ [][\A i \in 1..NSrc :
            /\ EndOf(i) =>
                  /\ leftover'[i] = ""
                  /\ IF leftover[i] # ""
                     THEN /\ handled' = Append(handled, handled'[Len(handled')])
                          /\ handled'[Len(handled')].src = i
                          /\ handled'[Len(handled')].line = leftover[i]
                     ELSE handled' = handled
            /\ stream[i] = "end" =>
                  \A j \in 1..Len(handled') : j > Len(handled) => handled'[j].src # i
         ]_vars
    /\ [](\A i \in 1..NSrc :
            stream[i] = "end" =>
                Content(Reconstructed(LinesOf(i))) = Content(Terminated(fed[i])))

\* Stdin delivered a text that ends without a terminator, and its last
\* piece was handled as the last line when the stream ended.
C13_Witness ==
    /\ IsStdin /\ stream[1] = "end"
    /\ fed[1] = "b" \o NL \o "c"
    /\ LinesOf(1) = <<"b", "c">>
    /\ leftover[1] = ""

\* The field k of the record is present: the key exists and its value is
\* not null.
Present(rec, k) == HasKey(rec, k) /\ Get(rec, k).t # "null"

\* rec = the record as parsed, res = what its rendering left behind.
OptionalsRendered(rec, res) ==
    /\ Present(rec, "req_id") =>
          ("req_id=" \o ToStr(Get(rec, "req_id"))) \in Range(res.extras)
    /\ Present(rec, "latency") =>
          \/ (ToStr(Get(rec, "latency")) \o "ms") \in Range(res.extras)
          \/ HasKey(res.left, "latency")

\* C14: presence is key-exists-and-not-null.  In the human-readable modes a
\* record whose req_id is present, the values 0, false and "" included,
\* has the token "req_id=<value>" among its extras; and a present latency
\* is not taken off the record without being rendered.
C14_PresenceNotNull ==
    \A j \in Calls :
        (handled[j].res.path \in {"paul", "long"} /\ ~handled[j].res.threw) =>
            OptionalsRendered(JSONparse(handled[j].line).v.o, handled[j].res)

\* C15: no exit while output is pending.  When main has called process.exit
\* after the last source finished, and the reader is still there, the last
\* write returned true (stdoutFlushed) and every string written has reached
\* the reader: no rendered line is lost at exit.
C15_NoExitWhilePending ==
    (exited /\ exitVia = "main" /\ ~readerClosed) =>
        /\ stdoutFlushed
        /\ nflushed = Len(Written)

\* The text x occurs in the text s.
Occurs(s, x) == \E i \in 1..Len(s) : Sub(s, i, i + Len(x) - 1) = x

\* The line has the escape character in its own content: raw, or as the
\* JSON escape of a string.
LineHasEscape(line) == Contains(line, ESC) \/ Occurs(line, "\\u001b")

\* C16: no color without the color option.  With color off, in every mode
\* (inspect included) a string written for a line contains the escape
\* character only if the line's own content had it.
C16_NoEscapesWithoutColor ==
    ~opts.color =>
        \A j \in Calls : \A u \in Range(handled[j].res.emitted) :
            Contains(u, ESC) => LineHasEscape(handled[j].line)

====
